---- MODULE Spec2Model ----
(***************************************************************************)
(* Model of scripts/customer_patronage_forecast.py: a one-shot pipeline    *)
(* that loads a transaction log, counts distinct customers per ISO week,   *)
(* tests stationarity, fits ARIMA(1,1,1) on all but the last four weekly   *)
(* counts, forecasts the held-out weeks, writes four plots and prints a    *)
(* MAPE score.  Every try block of the script is one action; the global    *)
(* names of the script are the variables.  Calls into pandas, statsmodels, *)
(* matplotlib and sklearn either return or raise, chosen by the            *)
(* environment; a read of a name that was never bound always raises        *)
(* (NameError).                                                            *)
(***************************************************************************)
EXTENDS Integers, Sequences, FiniteSets, TLC

\* ------------------------------------------------------------------ bounds
MaxRows == 2        \* longest arbitrary transaction log read from the CSV
MaxWeeks == 5       \* most weeks in a one-block-per-week transaction log

\* ------------------------------------------------------- program constants
Alpha == 5          \* significance level 0.05, in hundredths
HoldOut == 4        \* number of trailing weekly counts held out for testing
NaN == 0 - 1        \* a missing CustomerID

\* ------------------------------------------------------------ input domain
\* InvoiceDate values as <<year, day of year>>:
\* 2010-12-06 (week 49), 2011-12-05 (week 49) and 2011-01-01 (week 52, of ISO
\* year 2010).
Dates == {<<2010, 340>>, <<2011, 339>>, <<2011, 1>>}
Customers == {NaN, 1, 2}
WeeklyCounts == {1, 2}
\* p-values returned by adfuller, in hundredths: 0.05 and 0.06
PValues == {5, 6}
\* point forecasts returned by the fitted model
Predictions == {1, 2}

\* ----------------------------------------------------------- script values
Unbound == [bound |-> FALSE]
Bound(v) == [bound |-> TRUE, val |-> v]
None == [kind |-> "None"]
DataFrame(rows) == [kind |-> "DataFrame", rows |-> rows]
IsNone(x) == x.kind = "None"

\* messages printed by the except handlers, and the files written by savefig
ErrNotFound == "Error: The file was not found"
ErrEmpty == "Error: The file is empty"
ErrParse == "Error: The file could not be parsed"
ErrWeek == "Error while extracting weeks from dates"
ErrGroup == "Error while grouping patronage by week"
ErrStationarity == "Error during stationarity check"
ErrAcfPacf == "Error while plotting ACF and PACF"
ErrSplit == "Error while splitting data"
ErrFit == "Error while fitting ARIMA model"
ErrDiagnostics == "Error while plotting diagnostics"
ErrForecast == "Error while forecasting"
ErrPlotForecast == "Error while plotting forecast"
ErrMape == "Error while calculating MAPE"
MsgMape == "MAPE:"
AcfPlot == "cpf-acf-parameter-plot.jpg"
PacfPlot == "cpf-pacf-parameter-plot.jpg"
DiagnosticPlot == "cpf-diagnostic-plot.jpg"
ForecastPlot == "customer-patronage-forecast.jpg"

VARIABLES pc, df, patronage_weekly, p_value, result_diff, d, data_diff,
          p, q, train_data, test_data, model, results, forecast,
          forecast_values, forecast_ci, out

vars == <<pc, df, patronage_weekly, p_value, result_diff, d, data_diff,
          p, q, train_data, test_data, model, results, forecast,
          forecast_values, forecast_ci, out>>

\* ------------------------------------------------------- the input file
\* one row of the CSV
Row(date, cust) == [InvoiceDate |-> date, CustomerID |-> cust]

RECURSIVE SeqsUpTo(_, _)
\* all sequences over S of length at most n
SeqsUpTo(S, n) ==
    IF n = 0 THEN {<<>>}
    ELSE LET shorter == SeqsUpTo(S, n - 1)
         IN  shorter \cup {Append(s, x) : s \in {t \in shorter : Len(t) = n - 1}, x \in S}

\* the date of some day in ISO week w of 2011 (2011-01-03 is in week 1)
DayInWeek(w) == <<2011, 7 * w>>

RECURSIVE WeekBlocks(_)
\* a log with counts[w] distinct customers buying in week w, latest week first
WeekBlocks(counts) ==
    IF counts = <<>> THEN <<>>
    ELSE LET w == Len(counts)
         IN  [c \in 1..counts[w] |-> Row(DayInWeek(w), c)]
                 \o WeekBlocks(SubSeq(counts, 1, w - 1))

\* the transaction logs the CSV file may hold
ArbitraryLogs == SeqsUpTo({Row(dt, c) : dt \in Dates, c \in Customers}, MaxRows)
WeeklyLogs == {WeekBlocks(counts) : counts \in SeqsUpTo(WeeklyCounts, MaxWeeks)}

\* ------------------------------------------------ ISO week of a date
IsLeap(y) == (y % 4 = 0 /\ y % 100 # 0) \/ y % 400 = 0

\* ISO weekday (1 = Monday .. 7 = Sunday) of 1 January of year y
Jan1Weekday(y) ==
    LET g == (1 + 5 * ((y - 1) % 4) + 4 * ((y - 1) % 100) + 6 * ((y - 1) % 400)) % 7
    IN  IF g = 0 THEN 7 ELSE g

WeeksInYear(y) ==
    IF Jan1Weekday(y) = 4 \/ (IsLeap(y) /\ Jan1Weekday(y) = 3) THEN 53 ELSE 52

\* Series.dt.isocalendar().week of the date <<year, day of year>>
IsoWeek(date) ==
    LET y == date[1]
        doy == date[2]
        wd == ((Jan1Weekday(y) - 1 + doy - 1) % 7) + 1
        w == (doy - wd + 10) \div 7
    IN  IF w < 1 THEN WeeksInYear(y - 1)
        ELSE IF w > WeeksInYear(y) THEN 1
        ELSE w

\* df['InvoiceWeek'] = ...: the frame with the new column
WithWeekColumn(rows) ==
    [i \in 1..Len(rows) |->
        [InvoiceDate |-> rows[i].InvoiceDate,
         CustomerID |-> rows[i].CustomerID,
         InvoiceWeek |-> IsoWeek(rows[i].InvoiceDate)]]

HasColumn(rows, col) == \A i \in 1..Len(rows) : col \in DOMAIN rows[i]

\* ------------------------------------------------ weekly grouping
RECURSIVE SortAscending(_)
\* the group keys in the order groupby(sort=True) emits them
SortAscending(S) ==
    IF S = {} THEN <<>>
    ELSE LET m == CHOOSE x \in S : \A y \in S : x <= y
         IN  <<m>> \o SortAscending(S \ {m})

\* variant: the key also separates the years
GroupKeyYearWeek(row) == row.InvoiceDate[1] * 100 + row.InvoiceWeek

\* the key of a row under groupby('InvoiceWeek')
GroupKey(row) == row.InvoiceWeek

RECURSIVE SeenInGroup(_, _, _)
\* the CustomerID values met while walking the rows of group key
SeenInGroup(rows, key, seen) ==
    IF rows = <<>> THEN seen
    ELSE SeenInGroup(Tail(rows), key,
                     IF GroupKey(Head(rows)) = key
                     THEN seen \cup {Head(rows).CustomerID} ELSE seen)

\* SeriesGroupBy.nunique() of one group: distinct values, missing ones dropped
NUnique(rows, key) == Cardinality(SeenInGroup(rows, key, {}) \ {NaN})

\* df.groupby('InvoiceWeek')['CustomerID'].nunique().reset_index()['CustomerID']
GroupByWeekNUnique(rows) ==
    LET keys == SortAscending({GroupKey(rows[i]) : i \in 1..Len(rows)})
    IN  [k \in 1..Len(keys) |-> NUnique(rows, keys[k])]

\* ------------------------------------------------ series helpers
\* Series.diff().dropna()
Diff(s) == [i \in 1..(Len(s) - 1) |-> s[i + 1] - s[i]]

\* the position a slice bound k denotes in a series of n entries
SliceBound(n, k) ==
    IF k < 0 THEN (IF n + k < 0 THEN 0 ELSE n + k)
    ELSE (IF k > n THEN n ELSE k)

\* s[:k] and s[k:]
SliceTo(s, k) == SubSeq(s, 1, SliceBound(Len(s), k))
SliceFrom(s, k) == SubSeq(s, SliceBound(Len(s), k) + 1, Len(s))

\* variant: the test slice starts one entry late
TestSliceShort(s) == SliceFrom(s, 1 - HoldOut)

\* patronage_weekly[:-4]
TrainSlice(s) == SliceTo(s, 0 - HoldOut)
\* patronage_weekly[-4:]
TestSlice(s) == SliceFrom(s, 0 - HoldOut)

\* variant: a strict comparison
IsStationaryStrict(pv) == pv < Alpha

\* the test "p_value <= 0.05"
IsStationary(pv) == pv <= Alpha

\* the guard "if df is not None:" in front of a stage
Guarded(stage, frame) == IF IsNone(frame) THEN "done" ELSE stage

Init ==
    /\ pc = "load"
    /\ df = Unbound
    /\ patronage_weekly = Unbound
    /\ p_value = Unbound
    /\ result_diff = Unbound
    /\ d = Unbound
    /\ data_diff = Unbound
    /\ p = Unbound
    /\ q = Unbound
    /\ train_data = Unbound
    /\ test_data = Unbound
    /\ model = Unbound
    /\ results = Unbound
    /\ forecast = Unbound
    /\ forecast_values = Unbound
    /\ forecast_ci = Unbound
    /\ out = <<>>

\* variants: a handler that leaves df alone, a handler that rebinds it
DfAfterWeekErrorKeep(frame) == frame
DfAfterFitErrorNone(frame) == None

\* ------------------------------------------------ except handlers: df afterwards
\* lines 19-27, 33-35, 42-44, 63-65: the handler rebinds df to None
DfAfterLoadError(frame) == None
DfAfterWeekError(frame) == None
DfAfterGroupError(frame) == None
DfAfterStationarityError(frame) == None
\* lines 92-93: the handler only prints
DfAfterFitError(frame) == frame

\* ------------------------------------------------ stages
\* lines 16-27: read the CSV and parse InvoiceDate.  Only FileNotFoundError,
\* EmptyDataError and ParserError are handled; any other exception (a missing
\* InvoiceDate column, an unparseable date, a permission error) ends the script.
Load ==
    /\ pc = "load"
    /\ \/ /\ \E msg \in {ErrNotFound, ErrEmpty, ErrParse} : out' = Append(out, msg)
          /\ df' = DfAfterLoadError(df)
          /\ pc' = Guarded("week", df')
       \/ /\ df' \in {Unbound} \cup {DataFrame(rows) : rows \in ArbitraryLogs}
          /\ pc' = "crashed"
          /\ out' = out
       \/ /\ \E rows \in ArbitraryLogs : df' = DataFrame(rows)
          /\ pc' = "week"
          /\ out' = out
       \/ /\ \E rows \in WeeklyLogs : df' = DataFrame(rows)
          /\ pc' = "week"
          /\ out' = out
    /\ UNCHANGED <<patronage_weekly, p_value, result_diff, d, data_diff, p, q,
                   train_data, test_data, model, results, forecast,
                   forecast_values, forecast_ci>>

\* lines 29-35: add the InvoiceWeek column
ExtractWeek ==
    /\ pc = "week"
    /\ \/ /\ df' = DataFrame(WithWeekColumn(df.rows))
          /\ out' = out
       \/ /\ df' = DfAfterWeekError(df)
          /\ out' = Append(out, ErrWeek)
    /\ pc' = Guarded("group", df')
    /\ UNCHANGED <<patronage_weekly, p_value, result_diff, d, data_diff, p, q,
                   train_data, test_data, model, results, forecast,
                   forecast_values, forecast_ci>>

\* lines 37-44: distinct customers per week; groupby raises KeyError when the
\* frame has no InvoiceWeek column
GroupWeekly ==
    /\ pc = "group"
    /\ \/ /\ HasColumn(df.rows, "InvoiceWeek")
          /\ patronage_weekly' = Bound(GroupByWeekNUnique(df.rows))
          /\ df' = df
          /\ out' = out
       \/ /\ patronage_weekly' = patronage_weekly
          /\ df' = DfAfterGroupError(df)
          /\ out' = Append(out, ErrGroup)
    /\ pc' = Guarded("stat", df')
    /\ UNCHANGED <<p_value, result_diff, d, data_diff, p, q,
                   train_data, test_data, model, results, forecast,
                   forecast_values, forecast_ci>>

\* lines 46-65: augmented Dickey-Fuller test, differencing once when it does
\* not reject; a second test only sets d
CheckStationarity ==
    /\ pc = "stat"
    /\ \/ \* adfuller(patronage_weekly) raises
          /\ df' = DfAfterStationarityError(df)
          /\ out' = Append(out, ErrStationarity)
          /\ UNCHANGED <<p_value, result_diff, d, data_diff>>
       \/ \E pv \in PValues :
             /\ IsStationary(pv)
             /\ p_value' = Bound(pv)
             /\ d' = Bound(0)
             /\ data_diff' = patronage_weekly
             /\ UNCHANGED <<df, out, result_diff>>
       \/ \E pv \in PValues :
             /\ ~IsStationary(pv)
             /\ p_value' = Bound(pv)
             /\ data_diff' = Bound(Diff(patronage_weekly.val))
             /\ \/ \* adfuller(data_diff) raises
                   /\ d' = Bound(1)
                   /\ df' = DfAfterStationarityError(df)
                   /\ out' = Append(out, ErrStationarity)
                   /\ result_diff' = result_diff
                \/ \E pv2 \in PValues :
                      /\ result_diff' = Bound(pv2)
                      /\ d' = IF IsStationary(pv2) THEN Bound(1) ELSE Bound(2)
                      /\ UNCHANGED <<df, out>>
    /\ pc' = Guarded("acf", df')
    /\ UNCHANGED <<patronage_weekly, p, q, train_data, test_data, model,
                   results, forecast, forecast_values, forecast_ci>>

\* variant: both figures saved under the same file name
AcfPacfOutputsSameFile == {<<ErrAcfPacf>>, <<AcfPlot, ErrAcfPacf>>, <<AcfPlot, AcfPlot>>}

\* lines 69-75: what the ACF/PACF stage writes and prints: it fails before the
\* first figure is saved, after it, or not at all
AcfPacfOutputs == {<<ErrAcfPacf>>, <<AcfPlot, ErrAcfPacf>>, <<AcfPlot, PacfPlot>>}

PlotAcfPacf ==
    /\ pc = "acf"
    /\ \E o \in AcfPacfOutputs : out' = out \o o
    /\ pc' = "params"
    /\ UNCHANGED <<df, patronage_weekly, p_value, result_diff, d, data_diff, p, q,
                   train_data, test_data, model, results, forecast,
                   forecast_values, forecast_ci>>

\* variant: d keeps the order the stationarity stage chose
DefineArimaParamsKeepD ==
    /\ pc = "params"
    /\ p' = Bound(1)
    /\ q' = Bound(1)
    /\ pc' = "split"
    /\ UNCHANGED <<df, patronage_weekly, p_value, result_diff, d, data_diff,
                   train_data, test_data, model, results, forecast,
                   forecast_values, forecast_ci, out>>

\* line 78: p, d, q = 1, 1, 1
DefineArimaParams ==
    /\ pc = "params"
    /\ p' = Bound(1)
    /\ d' = Bound(1)
    /\ q' = Bound(1)
    /\ pc' = "split"
    /\ UNCHANGED <<df, patronage_weekly, p_value, result_diff, data_diff,
                   train_data, test_data, model, results, forecast,
                   forecast_values, forecast_ci, out>>

\* lines 80-87: train/test split
SplitData ==
    /\ pc = "split"
    /\ \/ /\ train_data' = Bound(TrainSlice(patronage_weekly.val))
          /\ test_data' = Bound(TestSlice(patronage_weekly.val))
          /\ out' = out
       \/ \* line 82 raises
          /\ UNCHANGED <<train_data, test_data>>
          /\ out' = Append(out, ErrSplit)
       \/ \* line 83 raises
          /\ train_data' = Bound(TrainSlice(patronage_weekly.val))
          /\ test_data' = test_data
          /\ out' = Append(out, ErrSplit)
    /\ pc' = Guarded("fit", df)
    /\ UNCHANGED <<df, patronage_weekly, p_value, result_diff, d, data_diff, p, q,
                   model, results, forecast, forecast_values, forecast_ci>>

\* ARIMA(endog, order=(p, d, q))
Arima(endog, order) == [endog |-> endog, order |-> order]

\* lines 87-95: construct and fit the model
FitModel ==
    /\ pc = "fit"
    /\ \/ \* both calls return
          /\ train_data.bound
          /\ model' = Bound(Arima(train_data.val, <<p.val, d.val, q.val>>))
          /\ results' = model'
          /\ UNCHANGED <<df, out>>
       \/ \* model.fit() raises
          /\ train_data.bound
          /\ model' = Bound(Arima(train_data.val, <<p.val, d.val, q.val>>))
          /\ results' = results
          /\ df' = DfAfterFitError(df)
          /\ out' = Append(out, ErrFit)
       \/ \* ARIMA(...) raises, or train_data is not bound
          /\ UNCHANGED <<model, results>>
          /\ df' = DfAfterFitError(df)
          /\ out' = Append(out, ErrFit)
    /\ pc' = Guarded("diag", df')
    /\ UNCHANGED <<patronage_weekly, p_value, result_diff, d, data_diff, p, q,
                   train_data, test_data, forecast, forecast_values, forecast_ci>>

\* lines 96-101: residual diagnostics figure
PlotDiagnostics ==
    /\ pc = "diag"
    /\ \/ /\ results.bound
          /\ out' = Append(out, DiagnosticPlot)
       \/ out' = Append(out, ErrDiagnostics)
    /\ pc' = "forecast"
    /\ UNCHANGED <<df, patronage_weekly, p_value, result_diff, d, data_diff, p, q,
                   train_data, test_data, model, results, forecast,
                   forecast_values, forecast_ci>>

\* steps=len(test_data)
ForecastSteps(test) == Len(test)

\* lines 103-111: forecast the held-out weeks, one value and one interval per
\* step
Forecast ==
    /\ pc = "forecast"
    /\ \/ \* all three statements return
          /\ results.bound
          /\ test_data.bound
          /\ \E v \in Predictions :
                LET steps == ForecastSteps(test_data.val)
                IN  /\ forecast' = Bound([steps |-> steps, model |-> results.val])
                    /\ forecast_values' = Bound([i \in 1..steps |-> v])
                    /\ forecast_ci' = Bound([i \in 1..steps |-> <<v - 1, v + 1>>])
          /\ out' = out
       \/ \* forecast.conf_int() raises
          /\ results.bound
          /\ test_data.bound
          /\ \E v \in Predictions :
                LET steps == ForecastSteps(test_data.val)
                IN  /\ forecast' = Bound([steps |-> steps, model |-> results.val])
                    /\ forecast_values' = Bound([i \in 1..steps |-> v])
          /\ forecast_ci' = forecast_ci
          /\ out' = Append(out, ErrForecast)
       \/ \* get_forecast raises, or results or test_data is not bound
          /\ UNCHANGED <<forecast, forecast_values, forecast_ci>>
          /\ out' = Append(out, ErrForecast)
    /\ pc' = Guarded("fplot", df)
    /\ UNCHANGED <<df, patronage_weekly, p_value, result_diff, d, data_diff, p, q,
                   train_data, test_data, model, results>>

\* lines 112-134: forecast-against-original figure
PlotForecast ==
    /\ pc = "fplot"
    /\ \/ /\ train_data.bound
          /\ forecast_values.bound
          /\ forecast_ci.bound
          /\ out' = Append(out, ForecastPlot)
       \/ out' = Append(out, ErrPlotForecast)
    /\ pc' = "mape"
    /\ UNCHANGED <<df, patronage_weekly, p_value, result_diff, d, data_diff, p, q,
                   train_data, test_data, model, results, forecast,
                   forecast_values, forecast_ci>>

\* lines 136-141: print the score
CheckAccuracy ==
    /\ pc = "mape"
    /\ \/ /\ test_data.bound
          /\ forecast_values.bound
          /\ out' = Append(out, MsgMape)
       \/ out' = Append(out, ErrMape)
    /\ pc' = "done"
    /\ UNCHANGED <<df, patronage_weekly, p_value, result_diff, d, data_diff, p, q,
                   train_data, test_data, model, results, forecast,
                   forecast_values, forecast_ci>>

Next ==
    \/ Load
    \/ ExtractWeek
    \/ GroupWeekly
    \/ CheckStationarity
    \/ PlotAcfPacf
    \/ DefineArimaParams
    \/ SplitData
    \/ FitModel
    \/ PlotDiagnostics
    \/ Forecast
    \/ PlotForecast
    \/ CheckAccuracy

Spec == Init /\ [][Next]_vars

\* ------------------------------------------------ vocabulary of the properties
ErrorMessages == {ErrNotFound, ErrEmpty, ErrParse, ErrWeek, ErrGroup,
                  ErrStationarity, ErrAcfPacf, ErrSplit, ErrFit, ErrDiagnostics,
                  ErrForecast, ErrPlotForecast, ErrMape}
EarlyErrors == {ErrNotFound, ErrEmpty, ErrParse, ErrWeek, ErrGroup, ErrStationarity}
PlotFiles == {AcfPlot, PacfPlot, DiagnosticPlot, ForecastPlot}
Printed(m) == \E i \in 1..Len(out) : out[i] = m
Count(m) == Cardinality({i \in 1..Len(out) : out[i] = m})
Finished == pc = "done"
\* the stationarity stage ran to its end without raising
StationarityPassed == p_value.bound /\ ~Printed(ErrStationarity)
Min(a, b) == IF a < b THEN a ELSE b

RECURSIVE DiffTimes(_, _)
\* s differenced n times
DiffTimes(s, n) == IF n = 0 THEN s ELSE DiffTimes(Diff(s), n - 1)

\* C1: once a stage has failed (printed its error message) no later stage is
\* attempted: the message is the last thing the run writes or prints, it is
\* the only error message, and the run is over.
C1_FailureSkipsLaterStages ==
    (\E m \in ErrorMessages : Printed(m)) =>
        /\ pc = "done"
        /\ out[Len(out)] \in ErrorMessages
        /\ \A i \in 1..(Len(out) - 1) : out[i] \notin ErrorMessages

\* C2: no exception escapes the script: whatever is raised in a stage, the load
\* stage included, is caught and the script terminates normally.
C2_NoExceptionEscapes == pc # "crashed"

\* C3: the ARIMA model is constructed with order (1,1,1) whatever order the
\* stationarity stage chose, on the weekly counts without their last 4 entries,
\* and the fitted results are those of that model.
C3_ArimaOrderAndTrainingData ==
    /\ model.bound =>
          LET s == patronage_weekly.val
              e == model.val.endog
          IN  /\ model.val.order = <<1, 1, 1>>
              /\ Len(e) = IF Len(s) > HoldOut THEN Len(s) - HoldOut ELSE 0
              /\ \A i \in 1..Len(e) : e[i] = s[i]
    /\ results.bound => model.bound /\ results.val = model.val

\* a model was constructed on a non-empty training set after the stationarity
\* stage had chosen d = 2
C3_Witness ==
    /\ model.bound
    /\ Len(model.val.endog) >= 1
    /\ p_value.val > Alpha
    /\ result_diff.bound
    /\ result_diff.val > Alpha

\* C4: after the stationarity stage, data_diff is the weekly series itself when
\* the ADF p-value is <= 0.05, and otherwise its first difference: one entry
\* fewer, entry i being series[i+1] - series[i].
C4_DataDiffIsSeriesOrFirstDifference ==
    StationarityPassed =>
        LET s == patronage_weekly.val
            x == data_diff.val
        IN  /\ p_value.val <= Alpha => x = s
            /\ p_value.val > Alpha =>
                  /\ Len(x) = IF Len(s) = 0 THEN 0 ELSE Len(s) - 1
                  /\ \A i \in 1..Len(x) : x[i] = s[i + 1] - s[i]

\* the series was differenced, and the difference is not flat
C4_Witness ==
    /\ StationarityPassed
    /\ p_value.val > Alpha
    /\ Len(data_diff.val) >= 2
    /\ data_diff.val[1] # data_diff.val[2]

\* C5: when the stationarity stage hands over, d is 0, 1 or 2, d = 2 only when
\* both p-values exceed 0.05, and data_diff is the weekly series differenced
\* exactly d times.
C5_DifferencedExactlyDTimes ==
    (pc = "acf") =>
        /\ d.val \in {0, 1, 2}
        /\ d.val = 2 =>
              p_value.val > Alpha /\ result_diff.bound /\ result_diff.val > Alpha
        /\ data_diff.val = DiffTimes(patronage_weekly.val, d.val)

C7_FourPlotsThenMape ==
    /\ (Finished /\ \A m \in ErrorMessages : ~Printed(m)) =>
          out = <<AcfPlot, PacfPlot, DiagnosticPlot, ForecastPlot, MsgMape>>
    /\ \A f \in PlotFiles : Count(f) <= 1
    /\ Count(MsgMape) <= 1
    /\ \A i \in 1..Len(out) : out[i] = MsgMape => i = Len(out)

\* a run over at least five weeks in which no stage failed
C7_Witness ==
    /\ Finished
    /\ \A m \in ErrorMessages : ~Printed(m)
    /\ Printed(MsgMape)
    /\ Len(patronage_weekly.val) > HoldOut

\* C8: the weekly series has one entry per distinct ISO week number of the
\* input dates (whatever their year), in ascending week order, each entry the
\* number of distinct (non-missing) CustomerID values of that week's rows.
C8_WeeklyDistinctCustomers ==
    (patronage_weekly.bound /\ ~IsNone(df)) =>
        LET rows == df.rows
            s == patronage_weekly.val
            week(i) == IsoWeek(rows[i].InvoiceDate)
            W == {week(i) : i \in 1..Len(rows)}
        IN  /\ Len(s) = Cardinality(W)
            /\ \A w \in W :
                  s[1 + Cardinality({v \in W : v < w})] =
                      Cardinality({rows[i].CustomerID :
                                      i \in {j \in 1..Len(rows) : week(j) = w}} \ {NaN})

\* two rows of different years and customers in the same ISO week, counted in
\* one entry
C8_Witness ==
    /\ patronage_weekly.bound
    /\ ~IsNone(df)
    /\ patronage_weekly.val = <<2>>
    /\ \E i, j \in 1..Len(df.rows) :
          /\ df.rows[i].InvoiceDate[1] # df.rows[j].InvoiceDate[1]
          /\ df.rows[i].InvoiceWeek = df.rows[j].InvoiceWeek

\* C9: a handled load error, or an error of week extraction, grouping or the
\* stationarity check, ends the run with df = None and that one message as the
\* whole output: no plot, no model, no fit, no forecast, no MAPE.
C9_EarlyFailureEndsRun ==
    /\ (\E m \in EarlyErrors : Printed(m)) =>
          /\ pc = "done"
          /\ IsNone(df)
          /\ Len(out) = 1
          /\ ~model.bound /\ ~results.bound
          /\ ~forecast.bound /\ ~forecast_values.bound
          /\ ~train_data.bound /\ ~test_data.bound
    /\ (pc = "done" /\ IsNone(df)) => (Len(out) = 1 /\ out[1] \in EarlyErrors)

\* the second ADF test raised, after the series had been differenced
C9_Witness ==
    /\ pc = "done"
    /\ out = <<ErrStationarity>>
    /\ data_diff.bound
    /\ IsNone(df)

====
